---- MODULE Spec2Model ----
(***************************************************************************)
(* DataGuardian (hazard pointers over a double-buffered pointer) and       *)
(* DataProtector (striped reference counters) of neunhoef/DataProtector.   *)
(*                                                                         *)
(* Every atomic load, store and read-modify-write of the C++ code is one   *)
(* step; steps of different threads interleave (the sequentially           *)
(* consistent executions of the program).  Thread-local computation is     *)
(* merged into the shared-memory step that precedes it.  A load of _V or   *)
(* _P by the thread that holds _mutex is merged into its previous step:    *)
(* both are written only under the mutex, so no other thread can change    *)
(* them in between.                                                        *)
(*                                                                         *)
(* Heap objects are numbers (0 is nullptr); delete is recorded per object, *)
(* so a dangling pointer is a pointer whose object has a delete count > 0. *)
(* An index outside [0, Nr) used on _list is an access past the end of the *)
(* array: it either kills the process or hits memory that is not part of   *)
(* the slot table.                                                         *)
(***************************************************************************)
EXTENDS Integers, Naturals, Sequences, FiniteSets, TLC

\* ---------------------------------------------------------------- bounds
\* size of the hazard table _H (template parameter maxNrThreads)
maxNrThreads == 2
\* number of exchange() calls made in one run
MaxExch == 3
\* number of publishes writer_protector makes in one run
MaxPub == 2
\* UnUser objects alive in the program at a time
MaxGuards == 3

\* number of slots of the DataProtector (template parameter Nr)
Nr == 2

nullptr == 0
\* value of _mutex while no thread holds it (thread ids are 0, 1, ...)
unlocked == -1

\* thread ids handed to lease()/unlease() (reader_guardian(i)), pairwise distinct
GReaders == {0, 1}
\* threads that call exchange() and the destructor
GWriters == {0}
\* writer threads of a run with concurrent publishers, and its reader ids
GWriters2 == {0, 1}
GReaders1 == {0}
\* heap objects: the snapshot allocated for the k-th exchange() call is k
Snapshots == 1..MaxExch
Ptr == {nullptr} \cup Snapshots
HIndex == 0..(maxNrThreads - 1)
\* reader threads of the DataProtector (reader_protector); any subset of them
\* takes part in a run
PReaders == {0, 1, 2}
\* heap objects of writer_protector: the k-th publish allocates snapshot k
PSnapshots == 1..MaxPub
Slots == 0..(Nr - 1)
\* DataProtector<Nr> objects of one program, and the positions of the UnUser
\* objects a thread has alive
Instances == {1, 2}
GuardIndex == 1..MaxGuards

VARIABLES
  \* DataGuardian members
  _P,        \* _P[0], _P[1]
  _V,        \* version selector
  _H,        \* hazard table
  _mutex,    \* unlocked or the id of the holding thread
  \* lease(): position and locals of each reader
  gpc, gv, gp,
  \* exchange() / ~DataGuardian(): position and locals of each writer
  wpc, wv, wp, wi, wr,
  dtor,      \* "no", "running", "done": has the destructor been invoked
  nexch,     \* exchange() calls made so far
  delCount,  \* heap: how often delete was applied to each snapshot
  \* history
  pub,       \* values published (V flips), in order
  nret,      \* number of exchange() calls that have returned
  floor,     \* per reader: nret when its current lease() call was invoked
  seenLive,  \* per reader: values of _P[_V] since its current lease() was invoked
  retried,   \* per reader: has its current or last lease() call taken `continue`
  flipped,   \* per reader: _V was written since the (XXX) load of the
             \* loop iteration it is in
  flippedEarly, \* the same, for writes before the iteration's store to _H
  scanned    \* hazard slots the running isHazard() call has read and passed

VARIABLES
  \* DataProtector members
  _list,          \* _list[i]._count, i in [0, Nr)
  _last,          \* allocation cursor
  _mySlot,        \* thread_local, -1 until assigned
  pointerToData,  \* the protected atomic pointer
  \* reader_protector: position and locals of each reader
  ppc, pid, pp,
  \* writer_protector: position and locals
  qpc, qi, qq,
  npub,           \* publishes made so far
  pdel,           \* heap: how often delete was applied to each snapshot
  crashed,        \* the process was killed by an out-of-bounds access
  \* history
  alarmsSeen,     \* a reader has read a deleted snapshot
  oobSeen,        \* a slot index outside [0, Nr) was used to index _list
  scanLog,        \* slots the running scan() has observed at zero, in order
  scanWaited      \* the running scan() has found a counter above zero (usleep)

VARIABLES
  \* several DataProtector<Nr> objects used through UnUser guards
  lists,          \* per instance: its _list
  lasts,          \* per instance: its _last
  upc, uid, uinst,\* use(): position, local id and `this` of each thread
  guards,         \* per thread: the UnUser objects alive, in order of creation
  \* history
  probe           \* one use() call under observation: its slot, the unUse()
                  \* calls made for it and, as long as no other operation
                  \* acts on the slot, its counter before the call and after
                  \* the release

VARIABLES
  \* a caller of lease(id) / unlease(id) with id outside [0, maxNrThreads)
  mpc, mid, mv, mp,  \* its position, its argument and its locals v and p
  killed             \* the process was killed by an out-of-bounds store

VARIABLES
  \* history: what a reader found in the snapshots it obtained
  gotLog,    \* per reader_guardian thread: the non-null snapshots it looked
             \* at under its leases, in order, repetitions left out
  pgotLog    \* per reader_protector thread: the same under its guards

uvars == <<lists, lasts, upc, uid, uinst, guards, probe>>

ovars == <<gotLog, pgotLog>>

mvars == <<mpc, mid, mv, mp, killed>>

pvars == <<_list, _last, _mySlot, pointerToData, ppc, pid, pp, qpc, qi, qq,
           npub, pdel, crashed, alarmsSeen, oobSeen, scanLog, scanWaited,
           uvars, mvars, ovars>>

\* the state of writer_protector / reader_protector and of their instance
progvars == <<_list, _last, pointerToData, ppc, pid, pp, qpc, qi, qq, npub,
              pdel, alarmsSeen, scanLog, scanWaited>>

gvars == <<_P, _V, _H, _mutex, gpc, gv, gp, wpc, wv, wp, wi, wr, dtor, nexch,
           delCount, pub, nret, floor, seenLive, retried,
           flipped, flippedEarly, scanned>>

vars == <<gvars, pvars>>

\* ------------------------------------------------------- DataGuardian()
GInit ==
  /\ _P = [i \in 0..1 |-> nullptr]
  /\ _V = 0
  /\ _H = [i \in HIndex |-> nullptr]
  /\ _mutex = unlocked
  /\ gpc = [t \in GReaders |-> "idle"]
  /\ gv = [t \in GReaders |-> 0]
  /\ gp = [t \in GReaders |-> nullptr]
  /\ wpc = [w \in GWriters2 |-> "idle"]
  /\ wv = [w \in GWriters2 |-> 0]
  /\ wp = [w \in GWriters2 |-> nullptr]
  /\ wi = [w \in GWriters2 |-> 0]
  /\ wr = [w \in GWriters2 |-> nullptr]
  /\ dtor = "no"
  /\ nexch = 0
  /\ delCount = [s \in Snapshots |-> 0]
  /\ pub = <<>>
  /\ nret = 0
  /\ floor = [t \in GReaders |-> 0]
  /\ seenLive = [t \in GReaders |-> {}]
  /\ retried = [t \in GReaders |-> FALSE]
  /\ flipped = [t \in GReaders |-> FALSE]
  /\ flippedEarly = [t \in GReaders |-> FALSE]
  /\ scanned = {}

\* readers that are inside a lease() call (invoked, not yet returned)
InLease(t) == gpc[t] \in {"loadP", "storeH", "recheck", "clearH", "retry"}

\* readers between the (XXX) load and the (YYY) re-load of one loop iteration
InIteration(t) == gpc[t] \in {"loadP", "storeH", "recheck"}

\* _P[_V] takes the value x: every lease() call in progress has it in its window
NoteLive(x) == [t \in GReaders |-> IF InLease(t) THEN seenLive[t] \cup {x}
                                                 ELSE seenLive[t]]

\* ------------------------------------------------------------- lease()
\* v = _V.load(consume)   (XXX); entered by a fresh call or by `continue`
LeaseLoadV(t) ==
  /\ UNCHANGED pvars
  /\ ~killed
  /\ \/ gpc[t] = "idle" /\ dtor = "no"
     \/ gpc[t] = "retry"
  /\ gv' = [gv EXCEPT ![t] = _V]
  /\ gpc' = [gpc EXCEPT ![t] = "loadP"]
  /\ flipped' = [flipped EXCEPT ![t] = FALSE]
  /\ flippedEarly' = [flippedEarly EXCEPT ![t] = FALSE]
  /\ IF gpc[t] = "idle"
       THEN /\ seenLive' = [seenLive EXCEPT ![t] = {_P[_V]}]
            /\ floor' = [floor EXCEPT ![t] = nret]
            /\ retried' = [retried EXCEPT ![t] = FALSE]
       ELSE /\ retried' = [retried EXCEPT ![t] = TRUE]
            /\ UNCHANGED <<seenLive, floor>>
  /\ UNCHANGED <<_P, _V, _H, _mutex, gp, wpc, wv, wp, wi, wr, dtor, nexch,
                 delCount, pub, nret, scanned>>

\* (variant of LeaseLoadP that loads from the slot V does not select)
LeaseLoadPOtherSlot(t) ==
  /\ UNCHANGED pvars
  /\ ~killed
  /\ gpc[t] = "loadP"
  /\ gp' = [gp EXCEPT ![t] = _P[1 - gv[t]]]
  /\ gpc' = [gpc EXCEPT ![t] = "storeH"]
  /\ UNCHANGED <<_P, _V, _H, _mutex, gv, wpc, wv, wp, wi, wr, dtor, nexch,
                 delCount, pub, nret, floor, seenLive, retried, flipped,
                 flippedEarly, scanned>>

\* p = _P[v].ptr.load(relaxed)
LeaseLoadP(t) ==
  /\ UNCHANGED pvars
  /\ ~killed
  /\ gpc[t] = "loadP"
  /\ gp' = [gp EXCEPT ![t] = _P[gv[t]]]
  /\ gpc' = [gpc EXCEPT ![t] = "storeH"]
  /\ UNCHANGED <<_P, _V, _H, _mutex, gv, wpc, wv, wp, wi, wr, dtor, nexch,
                 delCount, pub, nret, floor, seenLive, retried,
                 flipped, flippedEarly, scanned>>

\* _H[myId].ptr = p
LeaseStoreH(t) ==
  /\ UNCHANGED pvars
  /\ ~killed
  /\ gpc[t] = "storeH"
  /\ _H' = [_H EXCEPT ![t] = gp[t]]
  /\ gpc' = [gpc EXCEPT ![t] = "recheck"]
  /\ UNCHANGED <<_P, _V, _mutex, gv, gp, wpc, wv, wp, wi, wr, dtor, nexch,
                 delCount, pub, nret, floor, seenLive, retried,
                 flipped, flippedEarly, scanned>>

\* (variant of LeaseRecheck that also retries while a publisher holds _mutex)
LeaseRecheckWhileLocked(t) ==
  /\ UNCHANGED pvars
  /\ ~killed
  /\ gpc[t] = "recheck"
  /\ IF _V # gv[t] \/ _mutex # unlocked
       THEN /\ gpc' = [gpc EXCEPT ![t] = "clearH"]
            /\ gp' = [gp EXCEPT ![t] = nullptr]
       ELSE /\ gpc' = [gpc EXCEPT ![t] = "leased"]
            /\ gp' = gp
  /\ flipped' = [flipped EXCEPT ![t] = FALSE]
  /\ flippedEarly' = [flippedEarly EXCEPT ![t] = FALSE]
  /\ UNCHANGED <<_P, _V, _H, _mutex, gv, wpc, wv, wp, wi, wr, dtor, nexch,
                 delCount, pub, nret, floor, seenLive, retried, scanned>>

\* if (_V.load(relaxed) != v) ... continue; else break; return p   (YYY)
LeaseRecheck(t) ==
  /\ UNCHANGED pvars
  /\ ~killed
  /\ gpc[t] = "recheck"
  /\ IF _V # gv[t]
       THEN /\ gpc' = [gpc EXCEPT ![t] = "clearH"]
            /\ gp' = [gp EXCEPT ![t] = nullptr]
       ELSE /\ gpc' = [gpc EXCEPT ![t] = "leased"]
            /\ gp' = gp
  /\ flipped' = [flipped EXCEPT ![t] = FALSE]
  /\ flippedEarly' = [flippedEarly EXCEPT ![t] = FALSE]
  /\ UNCHANGED <<_P, _V, _H, _mutex, gv, wpc, wv, wp, wi, wr, dtor, nexch,
                 delCount, pub, nret, floor, seenLive, retried, scanned>>

\* (variant of LeaseClearH that retries without clearing the hazard slot)
LeaseRetryKeepsH(t) ==
  /\ UNCHANGED pvars
  /\ ~killed
  /\ gpc[t] = "clearH"
  /\ gpc' = [gpc EXCEPT ![t] = "retry"]
  /\ UNCHANGED <<_P, _V, _H, _mutex, gv, gp, wpc, wv, wp, wi, wr, dtor, nexch,
                 delCount, pub, nret, floor, seenLive, retried,
                 flipped, flippedEarly, scanned>>

\* _H[myId].ptr = nullptr; continue
LeaseClearH(t) ==
  /\ UNCHANGED pvars
  /\ ~killed
  /\ gpc[t] = "clearH"
  /\ _H' = [_H EXCEPT ![t] = nullptr]
  /\ gpc' = [gpc EXCEPT ![t] = "retry"]
  /\ UNCHANGED <<_P, _V, _mutex, gv, gp, wpc, wv, wp, wi, wr, dtor, nexch,
                 delCount, pub, nret, floor, seenLive, retried,
                 flipped, flippedEarly, scanned>>

\* ----------------------------------------------------------- unlease()
\* (variant of Unlease that leaves the hazard slot as it is)
UnleaseKeepsH(t) ==
  /\ UNCHANGED pvars
  /\ ~killed
  /\ gpc[t] = "leased"
  /\ gpc' = [gpc EXCEPT ![t] = "idle"]
  /\ gp' = [gp EXCEPT ![t] = nullptr]
  /\ gv' = [gv EXCEPT ![t] = 0]
  /\ seenLive' = [seenLive EXCEPT ![t] = {}]
  /\ floor' = [floor EXCEPT ![t] = 0]
  /\ UNCHANGED <<_P, _V, _H, _mutex, wpc, wv, wp, wi, wr, dtor, nexch,
                 delCount, pub, nret, scanned, retried, flipped, flippedEarly>>

\* (variant of Unlease that clears the whole hazard table)
UnleaseClearsTable(t) ==
  /\ UNCHANGED pvars
  /\ ~killed
  /\ gpc[t] = "leased"
  /\ _H' = [i \in HIndex |-> nullptr]
  /\ gpc' = [gpc EXCEPT ![t] = "idle"]
  /\ gp' = [gp EXCEPT ![t] = nullptr]
  /\ gv' = [gv EXCEPT ![t] = 0]
  /\ seenLive' = [seenLive EXCEPT ![t] = {}]
  /\ floor' = [floor EXCEPT ![t] = 0]
  /\ UNCHANGED <<_P, _V, _mutex, wpc, wv, wp, wi, wr, dtor, nexch,
                 delCount, pub, nret, scanned, retried, flipped,
                 flippedEarly>>

Unlease(t) ==
  /\ UNCHANGED pvars
  /\ ~killed
  /\ gpc[t] = "leased"
  /\ _H' = [_H EXCEPT ![t] = nullptr]
  /\ gpc' = [gpc EXCEPT ![t] = "idle"]
  /\ gp' = [gp EXCEPT ![t] = nullptr]
  /\ gv' = [gv EXCEPT ![t] = 0]
  /\ seenLive' = [seenLive EXCEPT ![t] = {}]
  /\ UNCHANGED <<retried, flipped, flippedEarly>>
  /\ floor' = [floor EXCEPT ![t] = 0]
  /\ UNCHANGED <<_P, _V, _mutex, wpc, wv, wp, wi, wr, dtor, nexch,
                 delCount, pub, nret, scanned>>

\* ---------------------------------------------------------- isHazard()
\* (variant of HazardAt without the test g != nullptr)
HazardAtNullCounts(i, p) == _H[i] = p

\* (variant of HazardAt that takes every non-null slot for a hit)
HazardAtAnyPointer(i, p) == _H[i] # nullptr

\* (variant of HazardAt whose loop starts at slot 1)
HazardAtSkipFirst(i, p) == i > 0 /\ _H[i] # nullptr /\ _H[i] = p

\* one iteration of the loop body: g = _H[i]; g != nullptr && g == p
HazardAt(i, p) == _H[i] # nullptr /\ _H[i] = p

\* One step of `while (isHazard(p)) usleep(250);` by writer w: read _H[wi].
\* A hit returns true and the loop calls isHazard again from slot 0; reading
\* the last slot without a hit returns false and leaves the loop.
ScanStep(w, after) ==
  IF HazardAt(wi[w], wp[w])
    THEN /\ wi' = [wi EXCEPT ![w] = 0]
         /\ scanned' = {}
         /\ wpc' = wpc
    ELSE /\ scanned' = IF _H[wi[w]] = nullptr \/ _H[wi[w]] # wp[w]
                         THEN scanned \cup {wi[w]} ELSE scanned
         /\ IF wi[w] + 1 < maxNrThreads
              THEN /\ wi' = [wi EXCEPT ![w] = wi[w] + 1]
                   /\ wpc' = wpc
              ELSE /\ wi' = [wi EXCEPT ![w] = 0]
                   /\ wpc' = [wpc EXCEPT ![w] = after]

\* (variant of Delete that frees nothing)
DeleteForgotten(p) == delCount

\* delete p  (delete of nullptr does nothing)
Delete(p) == IF p = nullptr THEN delCount
             ELSE [delCount EXCEPT ![p] = delCount[p] + 1]

\* ------------------------------------------------------------ exchange()
\* (variant of ExLock that enters without taking the mutex)
ExLockNoMutex(w) ==
  /\ UNCHANGED pvars
  /\ ~killed
  /\ wpc[w] = "idle"
  /\ dtor = "no"
  /\ nexch < MaxExch
  /\ nexch' = nexch + 1
  /\ \E r \in {nexch + 1, nullptr} : wr' = [wr EXCEPT ![w] = r]
  /\ wv' = [wv EXCEPT ![w] = _V]
  /\ _mutex' = w
  /\ wpc' = [wpc EXCEPT ![w] = "storeP"]
  /\ UNCHANGED <<_P, _V, _H, gpc, gv, gp, wp, wi, dtor, delCount, pub,
                 nret, floor, seenLive, retried,
                 flipped, flippedEarly, scanned>>

\* call with a fresh snapshot or nullptr; lock_guard; v = _V.load(relaxed)
ExLock(w) ==
  /\ UNCHANGED pvars
  /\ ~killed
  /\ wpc[w] = "idle"
  /\ dtor = "no"
  /\ nexch < MaxExch
  /\ _mutex = unlocked
  /\ _mutex' = w
  /\ nexch' = nexch + 1
  /\ \E r \in {nexch + 1, nullptr} : wr' = [wr EXCEPT ![w] = r]
  /\ wv' = [wv EXCEPT ![w] = _V]
  /\ wpc' = [wpc EXCEPT ![w] = "storeP"]
  /\ UNCHANGED <<_P, _V, _H, gpc, gv, gp, wp, wi, dtor, delCount, pub, nret,
                 floor, seenLive, retried, flipped, flippedEarly, scanned>>

\* (variant of ExStoreP that stores the replacement into the live slot)
ExStorePIntoLive(w) ==
  /\ UNCHANGED pvars
  /\ ~killed
  /\ wpc[w] = "storeP"
  /\ _P' = [_P EXCEPT ![wv[w]] = wr[w]]
  /\ wpc' = [wpc EXCEPT ![w] = "flipV"]
  /\ UNCHANGED <<_V, _H, _mutex, gpc, gv, gp, wv, wp, wi, wr, dtor, nexch,
                 delCount, pub, nret, floor, seenLive, retried, flipped,
                 flippedEarly, scanned>>

\* _P[1-v].ptr.store(replacement, relaxed)
ExStoreP(w) ==
  /\ UNCHANGED pvars
  /\ ~killed
  /\ wpc[w] = "storeP"
  /\ _P' = [_P EXCEPT ![1 - wv[w]] = wr[w]]
  /\ wpc' = [wpc EXCEPT ![w] = "flipV"]
  /\ UNCHANGED <<_V, _H, _mutex, gpc, gv, gp, wv, wp, wi, wr, dtor, nexch,
                 delCount, pub, nret, floor, seenLive, retried,
                 flipped, flippedEarly, scanned>>

\* _V = 1-v;  p = _P[v].ptr.load(relaxed)
ExFlipV(w) ==
  /\ UNCHANGED pvars
  /\ ~killed
  /\ wpc[w] = "flipV"
  /\ _V' = 1 - wv[w]
  /\ wp' = [wp EXCEPT ![w] = _P[wv[w]]]
  /\ wi' = [wi EXCEPT ![w] = 0]
  /\ scanned' = {}
  /\ pub' = Append(pub, _P[1 - wv[w]])
  /\ seenLive' = NoteLive(_P[1 - wv[w]])
  /\ flipped' = [t \in GReaders |-> InIteration(t) \/ flipped[t]]
  /\ flippedEarly' = [t \in GReaders |->
                        gpc[t] \in {"loadP", "storeH"} \/ flippedEarly[t]]
  /\ UNCHANGED retried
  /\ wpc' = [wpc EXCEPT ![w] = "scan"]
  /\ UNCHANGED <<_P, _H, _mutex, gpc, gv, gp, wv, wr, dtor, nexch,
                 delCount, nret, floor>>

\* while (isHazard(p)) usleep(250);
ExScan(w) ==
  /\ UNCHANGED pvars
  /\ ~killed
  /\ wpc[w] = "scan"
  /\ ScanStep(w, "delete")
  /\ UNCHANGED <<_P, _V, _H, _mutex, gpc, gv, gp, wv, wp, wr, dtor, nexch,
                 delCount, pub, nret, floor, seenLive, retried,
                 flipped, flippedEarly>>

\* delete p
ExDelete(w) ==
  /\ UNCHANGED pvars
  /\ ~killed
  /\ wpc[w] = "delete"
  /\ delCount' = Delete(wp[w])
  /\ wpc' = [wpc EXCEPT ![w] = "nullP"]
  /\ UNCHANGED <<_P, _V, _H, _mutex, gpc, gv, gp, wv, wp, wi, wr, dtor, nexch,
                 pub, nret, floor, seenLive, retried,
                 flipped, flippedEarly, scanned>>

\* (variant of ExNullP that returns without clearing _P[v])
ExNullPKeepsPointer(w) ==
  /\ UNCHANGED pvars
  /\ ~killed
  /\ wpc[w] = "nullP"
  /\ _mutex' = unlocked
  /\ nret' = nret + 1
  /\ wpc' = [wpc EXCEPT ![w] = "idle"]
  /\ wp' = [wp EXCEPT ![w] = nullptr]
  /\ wr' = [wr EXCEPT ![w] = nullptr]
  /\ wv' = [wv EXCEPT ![w] = 0]
  /\ scanned' = {}
  /\ UNCHANGED <<_P, _V, _H, gpc, gv, gp, wi, dtor, nexch, delCount, pub,
                 floor, seenLive, retried, flipped, flippedEarly>>

\* _P[v].ptr = nullptr; the lock_guard releases the mutex; return
ExNullP(w) ==
  /\ UNCHANGED pvars
  /\ ~killed
  /\ wpc[w] = "nullP"
  /\ _P' = [_P EXCEPT ![wv[w]] = nullptr]
  /\ _mutex' = unlocked
  /\ nret' = nret + 1
  /\ wpc' = [wpc EXCEPT ![w] = "idle"]
  /\ wp' = [wp EXCEPT ![w] = nullptr]
  /\ wr' = [wr EXCEPT ![w] = nullptr]
  /\ wv' = [wv EXCEPT ![w] = 0]
  /\ scanned' = {}
  /\ UNCHANGED <<_V, _H, gpc, gv, gp, wi, dtor, nexch, delCount, pub,
                 floor, seenLive, retried, flipped, flippedEarly>>

\* ------------------------------------------------------ ~DataGuardian()
\* Teardown is invoked once, when no lease() call is in progress (a reader may
\* hold a lease); afterwards no lease() and no exchange() is started.
\* lock_guard; first evaluation of _P[_V].ptr for isHazard
DtorLock(w) ==
  /\ UNCHANGED pvars
  /\ ~killed
  /\ wpc[w] = "idle"
  /\ dtor = "no"
  /\ \A t \in GReaders : ~InLease(t)
  /\ _mutex = unlocked
  /\ _mutex' = w
  /\ dtor' = "running"
  /\ wv' = [wv EXCEPT ![w] = _V]
  /\ wp' = [wp EXCEPT ![w] = _P[_V]]
  /\ wi' = [wi EXCEPT ![w] = 0]
  /\ scanned' = {}
  /\ wpc' = [wpc EXCEPT ![w] = "dscan"]
  /\ UNCHANGED <<_P, _V, _H, gpc, gv, gp, wr, nexch, delCount, pub, nret,
                 floor, seenLive, retried, flipped, flippedEarly>>

\* (variant of DtorScan that does not wait for the hazard table)
DtorScanNoWait(w) ==
  /\ UNCHANGED pvars
  /\ ~killed
  /\ wpc[w] = "dscan"
  /\ wi' = [wi EXCEPT ![w] = 0]
  /\ wpc' = [wpc EXCEPT ![w] = "ddelete"]
  /\ UNCHANGED <<_P, _V, _H, _mutex, gpc, gv, gp, wv, wp, wr, dtor, nexch,
                 delCount, pub, nret, floor, seenLive, retried,
                 flipped, flippedEarly, scanned>>

\* while (isHazard(_P[_V].ptr)) usleep(250);
DtorScan(w) ==
  /\ UNCHANGED pvars
  /\ ~killed
  /\ wpc[w] = "dscan"
  /\ ScanStep(w, "ddelete")
  /\ UNCHANGED <<_P, _V, _H, _mutex, gpc, gv, gp, wv, wp, wr, dtor, nexch,
                 delCount, pub, nret, floor, seenLive, retried,
                 flipped, flippedEarly>>

\* temp = _P[_V].ptr.load(); delete temp
DtorDelete(w) ==
  /\ UNCHANGED pvars
  /\ ~killed
  /\ wpc[w] = "ddelete"
  /\ delCount' = Delete(_P[_V])
  /\ wpc' = [wpc EXCEPT ![w] = "dnull"]
  /\ UNCHANGED <<_P, _V, _H, _mutex, gpc, gv, gp, wv, wp, wi, wr, dtor, nexch,
                 pub, nret, floor, seenLive, retried,
                 flipped, flippedEarly, scanned>>

\* _P[_V].ptr = nullptr; the lock_guard releases the mutex
DtorNullP(w) ==
  /\ UNCHANGED pvars
  /\ ~killed
  /\ wpc[w] = "dnull"
  /\ _P' = [_P EXCEPT ![_V] = nullptr]
  /\ _mutex' = unlocked
  /\ dtor' = "done"
  /\ wpc' = [wpc EXCEPT ![w] = "idle"]
  /\ wp' = [wp EXCEPT ![w] = nullptr]
  /\ wv' = [wv EXCEPT ![w] = 0]
  /\ scanned' = {}
  /\ seenLive' = NoteLive(nullptr)
  /\ UNCHANGED <<retried, flipped, flippedEarly>>
  /\ UNCHANGED <<_V, _H, gpc, gv, gp, wi, wr, nexch, delCount, pub, nret,
                 floor>>

\* ------------------------------------- lease(id), unlease(id), id not in [0, N)
\* Thread ids passed by a caller that does not keep to [0, maxNrThreads).
BadIds == {-1, maxNrThreads}

MInit ==
  /\ mpc = "idle"
  /\ mid = 0
  /\ mv = 0
  /\ mp = nullptr
  /\ killed = FALSE

\* the guardian's state apart from _P and _V, and all of the protector's
mframe == <<_H, _mutex, gpc, gv, gp, wpc, wv, wp, wi, wr, dtor, nexch,
            delCount, pub, nret, floor, seenLive, retried,
            flipped, flippedEarly, scanned,
            _list, _last, _mySlot, pointerToData, ppc, pid, pp, qpc, qi, qq,
            npub, pdel, crashed, alarmsSeen, oobSeen, scanLog, scanWaited,
            uvars, ovars>>

\* _H[id].ptr = val for id outside the array.  The members are laid out as
\* _P[2], _H[maxNrThreads], _V, each TPtr 64 bytes: _H[-1] is the storage of
\* _P[1] and _H[maxNrThreads] that of _V.  The access is undefined: the store
\* lands on the neighbouring member, the process is killed, or the store is
\* not performed.  The bits of a non-null pointer stored over _V are no index
\* into _P; the process does not survive the next access through _V.
OutOfRangeStore(id, val) ==
  \/ /\ killed' = TRUE
     /\ UNCHANGED <<_P, _V>>
  \/ UNCHANGED <<_P, _V, killed>>
  \/ /\ id = -1
     /\ _P' = [_P EXCEPT ![1] = val]
     /\ UNCHANGED <<_V, killed>>
  \/ /\ id = maxNrThreads
     /\ IF val = nullptr THEN _V' = 0 /\ killed' = killed
                         ELSE _V' = _V /\ killed' = TRUE
     /\ _P' = _P

\* v = _V.load(consume)   (XXX), for a call lease(id) with id in BadIds
BadLeaseLoadV ==
  /\ ~killed
  /\ \/ mpc = "idle" /\ dtor = "no" /\ \E id \in BadIds : mid' = id
     \/ mpc = "retry" /\ mid' = mid
  /\ mv' = _V
  /\ mpc' = "loadP"
  /\ UNCHANGED <<_P, _V, mp, killed, mframe>>

\* p = _P[v].ptr.load(relaxed)
BadLeaseLoadP ==
  /\ ~killed
  /\ mpc = "loadP"
  /\ mp' = _P[mv]
  /\ mpc' = "storeH"
  /\ UNCHANGED <<_P, _V, mid, mv, killed, mframe>>

\* _H[myId].ptr = p
BadLeaseStoreH ==
  /\ ~killed
  /\ mpc = "storeH"
  /\ OutOfRangeStore(mid, mp)
  /\ mpc' = "recheck"
  /\ UNCHANGED <<mid, mv, mp, mframe>>

\* if (_V.load(relaxed) != v) ... continue; else break; return p   (YYY)
BadLeaseRecheck ==
  /\ ~killed
  /\ mpc = "recheck"
  /\ mpc' = IF _V # mv THEN "clearH" ELSE "leased"
  /\ UNCHANGED <<_P, _V, mid, mv, mp, killed, mframe>>

\* _H[myId].ptr = nullptr; continue
BadLeaseClearH ==
  /\ ~killed
  /\ mpc = "clearH"
  /\ OutOfRangeStore(mid, nullptr)
  /\ mpc' = "retry"
  /\ UNCHANGED <<mid, mv, mp, mframe>>

\* unlease(id): _H[myId].ptr = nullptr
BadUnlease ==
  /\ ~killed
  /\ mpc = "leased"
  /\ OutOfRangeStore(mid, nullptr)
  /\ mpc' = "idle"
  /\ mp' = nullptr
  /\ mv' = 0
  /\ UNCHANGED <<mid, mframe>>

\* ------------------------------------------- what the readers look at
OInit ==
  /\ gotLog = [t \in GReaders |-> <<>>]
  /\ pgotLog = [t \in PReaders |-> <<>>]

\* the log with x added, unless x is its last entry
Noted(log, x) ==
  IF Len(log) > 0 /\ log[Len(log)] = x THEN log ELSE Append(log, x)

\* the state other than the readers' observations
oframe == <<gvars, _list, _last, _mySlot, pointerToData, ppc, pid, pp, qpc,
            qi, qq, npub, pdel, crashed, alarmsSeen, oobSeen, scanLog,
            scanWaited, uvars, mvars>>

\* reader_guardian: `if (p == nullptr) ... else if (!p->isValid) ...` on the
\* pointer that lease() returned
LookAtLeased(t) ==
  /\ ~killed
  /\ gpc[t] = "leased"
  /\ gp[t] # nullptr
  /\ Noted(gotLog[t], gp[t]) # gotLog[t]
  /\ gotLog' = [gotLog EXCEPT ![t] = Noted(gotLog[t], gp[t])]
  /\ UNCHANGED <<pgotLog, oframe>>

\* reader_protector: the same on the pointer loaded under the guard
LookAtGuarded(t) ==
  /\ ~crashed
  /\ ppc[t] = "read"
  /\ pp[t] # nullptr
  /\ Noted(pgotLog[t], pp[t]) # pgotLog[t]
  /\ pgotLog' = [pgotLog EXCEPT ![t] = Noted(pgotLog[t], pp[t])]
  /\ UNCHANGED <<gotLog, oframe>>

\* ====================================================== DataProtector
\* DataProtector() : _last(0), every _count = 0; _mySlot = -1 in every thread
PInit ==
  /\ _list = [i \in Slots |-> 0]
  /\ _last = 0
  /\ _mySlot = [t \in PReaders |-> -1]
  /\ pointerToData = nullptr
  /\ ppc = [t \in PReaders |-> "idle"]
  /\ pid = [t \in PReaders |-> -1]
  /\ pp = [t \in PReaders |-> nullptr]
  /\ qpc = "idle"
  /\ qi = 0
  /\ qq = nullptr
  /\ npub = 0
  /\ pdel = [s \in PSnapshots |-> 0]
  /\ crashed = FALSE
  /\ alarmsSeen = FALSE
  /\ oobSeen = FALSE
  /\ scanLog = <<>>
  /\ scanWaited = FALSE

\* _list[id]._count += d.  An id outside [0, Nr) is an access past the end of
\* the array new Entry[Nr]: the slot table itself is not written.
AddAt(id, d) == IF id \in Slots THEN [_list EXCEPT ![id] = _list[id] + d]
                ELSE _list

\* ---------------------------------------------------------------- use()
\* id = _mySlot; if (id < 0) id = _last++;
UseAlloc(t) ==
  /\ ~crashed
  /\ UNCHANGED <<gvars, uvars, mvars, ovars>>
  /\ ppc[t] = "idle"
  /\ _mySlot[t] < 0
  /\ pid' = [pid EXCEPT ![t] = _last]
  /\ _last' = _last + 1
  /\ ppc' = [ppc EXCEPT ![t] = "chkLast"]
  /\ UNCHANGED <<_list, _mySlot, pointerToData, pp, qpc, qi, qq, npub, pdel,
                 crashed, alarmsSeen, oobSeen, scanLog, scanWaited>>

\* (variant of LastWraps that resets the cursor after every allocation)
LastWrapsAtOne(n) == n >= 1

\* the wrap test of the cursor
LastWraps(n) == n > Nr

\* if (_last > Nr) ...; otherwise _mySlot = id
UseChkLast(t) ==
  /\ ~crashed
  /\ UNCHANGED <<gvars, uvars, mvars, ovars>>
  /\ ppc[t] = "chkLast"
  /\ IF LastWraps(_last)
       THEN /\ ppc' = [ppc EXCEPT ![t] = "resetLast"]
            /\ _mySlot' = _mySlot
       ELSE /\ ppc' = [ppc EXCEPT ![t] = "inc"]
            /\ _mySlot' = [_mySlot EXCEPT ![t] = pid[t]]
  /\ UNCHANGED <<_list, _last, pointerToData, pid, pp, qpc, qi, qq, npub, pdel,
                 crashed, alarmsSeen, oobSeen, scanLog, scanWaited>>

\* _last = 0; _mySlot = id
UseResetLast(t) ==
  /\ ~crashed
  /\ UNCHANGED <<gvars, uvars, mvars, ovars>>
  /\ ppc[t] = "resetLast"
  /\ _last' = 0
  /\ _mySlot' = [_mySlot EXCEPT ![t] = pid[t]]
  /\ ppc' = [ppc EXCEPT ![t] = "inc"]
  /\ UNCHANGED <<_list, pointerToData, pid, pp, qpc, qi, qq, npub, pdel,
                 crashed, alarmsSeen, oobSeen, scanLog, scanWaited>>

\* (variant of UseInc that holds the increment back while scan() runs)
UseIncWaitsForScan(t) ==
  /\ ~crashed
  /\ UNCHANGED <<gvars, uvars, mvars, ovars>>
  /\ qpc # "scan"
  /\ \/ ppc[t] = "inc"
     \/ ppc[t] = "idle" /\ _mySlot[t] >= 0
  /\ _mySlot[t] \in Slots
  /\ pid' = [pid EXCEPT ![t] = _mySlot[t]]
  /\ _list' = AddAt(_mySlot[t], 1)
  /\ ppc' = [ppc EXCEPT ![t] = "loadP"]
  /\ UNCHANGED <<_last, _mySlot, pointerToData, pp, qpc, qi, qq, npub, pdel,
                 crashed, alarmsSeen, oobSeen, scanLog, scanWaited>>

\* _list[id]._count++; return UnUser(this, id).  With _mySlot already set this
\* is the first shared-memory step of use().
UseInc(t) ==
  /\ ~crashed
  /\ UNCHANGED <<gvars, uvars, mvars, ovars>>
  /\ \/ ppc[t] = "inc"
     \/ ppc[t] = "idle" /\ _mySlot[t] >= 0
  /\ LET id == _mySlot[t] IN
       /\ pid' = [pid EXCEPT ![t] = id]
       /\ IF id \in Slots
            THEN /\ _list' = AddAt(id, 1)
                 /\ UNCHANGED <<oobSeen, crashed>>
                 /\ ppc' = [ppc EXCEPT ![t] = "loadP"]
            ELSE /\ oobSeen' = TRUE
                 /\ _list' = AddAt(id, 1)
                 /\ \/ crashed' = TRUE /\ ppc' = ppc
                    \/ crashed' = crashed /\ ppc' = [ppc EXCEPT ![t] = "loadP"]
  /\ UNCHANGED <<_last, _mySlot, pointerToData, pp, qpc, qi, qq, npub, pdel,
                 alarmsSeen, scanLog, scanWaited>>

\* ------------------------------------------------------ reader_protector
\* DataToBeProtected const* p = pointerToData;
ReadP(t) ==
  /\ ~crashed
  /\ UNCHANGED <<gvars, uvars, mvars, ovars>>
  /\ ppc[t] = "loadP"
  /\ pp' = [pp EXCEPT ![t] = pointerToData]
  /\ ppc' = [ppc EXCEPT ![t] = "read"]
  /\ UNCHANGED <<_list, _last, _mySlot, pointerToData, pid, qpc, qi, qq, npub,
                 pdel, crashed, alarmsSeen, oobSeen, scanLog, scanWaited>>

\* if (p == nullptr) nullptrsSeen++; else if (!p->isValid) alarmsSeen++;
ReadData(t) ==
  /\ ~crashed
  /\ UNCHANGED <<gvars, uvars, mvars, ovars>>
  /\ ppc[t] = "read"
  /\ alarmsSeen' = (alarmsSeen \/ (pp[t] # nullptr /\ pdel[pp[t]] > 0))
  /\ ppc' = [ppc EXCEPT ![t] = "drop"]
  /\ UNCHANGED <<_list, _last, _mySlot, pointerToData, pid, pp, qpc, qi, qq,
                 npub, pdel, crashed, oobSeen, scanLog, scanWaited>>

\* ~UnUser(): _prot->unUse(_id): _list[id]._count--
DropGuard(t) ==
  /\ ~crashed
  /\ UNCHANGED <<gvars, uvars, mvars, ovars>>
  /\ ppc[t] = "drop"
  /\ _list' = AddAt(pid[t], -1)
  /\ ppc' = [ppc EXCEPT ![t] = "idle"]
  /\ pp' = [pp EXCEPT ![t] = nullptr]
  /\ UNCHANGED <<_last, _mySlot, pointerToData, pid, qpc, qi, qq, npub, pdel,
                 crashed, alarmsSeen, oobSeen, scanLog, scanWaited>>

\* ------------------------------------------------------ writer_protector
\* p = new ...; q = pointerToData; pointerToData = p   (the last publish of
\* writer_protector stores nullptr)
WriterSwap ==
  /\ ~crashed
  /\ UNCHANGED <<gvars, uvars, mvars, ovars>>
  /\ qpc = "idle"
  /\ npub < MaxPub
  /\ npub' = npub + 1
  /\ qq' = pointerToData
  /\ \E r \in {npub + 1, nullptr} : pointerToData' = r
  /\ qi' = 0
  /\ scanLog' = <<>>
  /\ scanWaited' = FALSE
  /\ qpc' = "scan"
  /\ UNCHANGED <<_list, _last, _mySlot, ppc, pid, pp, pdel, crashed,
                 alarmsSeen, oobSeen>>

\* (variant of SlotBusy that also waits on a counter of zero)
SlotBusyAtZero(i) == _list[i] >= 0

\* (variant of SlotBusy that lets one outstanding guard pass)
SlotBusyAboveOne(i) == _list[i] > 1

\* the loop condition of scan(): _list[i]._count > 0
SlotBusy(i) == _list[i] > 0

\* scan(): one evaluation of `while (_list[i]._count > 0) usleep(250);`
Scan ==
  /\ ~crashed
  /\ UNCHANGED <<gvars, uvars, mvars, ovars>>
  /\ qpc = "scan"
  /\ IF SlotBusy(qi)
       THEN /\ scanWaited' = TRUE
            /\ UNCHANGED <<qi, qpc, scanLog>>
       ELSE /\ scanLog' = IF _list[qi] = 0 THEN Append(scanLog, qi)
                                              ELSE scanLog
            /\ UNCHANGED scanWaited
            /\ IF qi + 1 < Nr
                 THEN qi' = qi + 1 /\ qpc' = qpc
                 ELSE qi' = 0 /\ qpc' = "delete"
  /\ UNCHANGED <<_list, _last, _mySlot, pointerToData, ppc, pid, pp, qq, npub,
                 pdel, crashed, alarmsSeen, oobSeen>>

\* delete q
WriterDelete ==
  /\ ~crashed
  /\ UNCHANGED <<gvars, uvars, mvars, ovars>>
  /\ qpc = "delete"
  /\ pdel' = IF qq = nullptr THEN pdel ELSE [pdel EXCEPT ![qq] = pdel[qq] + 1]
  /\ qq' = nullptr
  /\ qpc' = "idle"
  /\ UNCHANGED <<_list, _last, _mySlot, pointerToData, ppc, pid, pp, qi, npub,
                 crashed, alarmsSeen, oobSeen, scanLog, scanWaited>>

\* ============================================ UnUser guards, instances
\* Threads that use DataProtector objects through the class interface alone:
\* use() on any instance, also while holding guards, move construction of a
\* guard, destruction of guards in any order.  _mySlot is a static
\* thread_local member: one value per thread for all instances.
\* history: the threads whose use() calls are observed; all threads run the
\* same code and no step depends on the value of a thread's identity
ObservedThreads == {0}

\* history: no use() call is under observation
NoProbe == [on |-> FALSE, d |-> nullptr, id |-> -1, pre |-> -1, clean |-> FALSE,
            rel |-> 0, post |-> -1]

UInit ==
  /\ lists = [d \in Instances |-> [i \in Slots |-> 0]]
  /\ lasts = [d \in Instances |-> 0]
  /\ upc = [t \in PReaders |-> "idle"]
  /\ uid = [t \in PReaders |-> -1]
  /\ uinst = [t \in PReaders |-> nullptr]
  /\ guards = [t \in PReaders |-> <<>>]
  /\ probe = NoProbe

\* (variant of AddOn in which unUse() does not decrement)
AddOnIncrementOnly(d, id, n) ==
  IF id \in Slots /\ n > 0 THEN [lists EXCEPT ![d][id] = lists[d][id] + n]
  ELSE lists

\* (variant of AddOn in which unUse() decrements slot 0)
AddOnSlotZero(d, id, n) ==
  IF id \notin Slots THEN lists
  ELSE IF n < 0 THEN [lists EXCEPT ![d][0] = lists[d][0] + n]
  ELSE [lists EXCEPT ![d][id] = lists[d][id] + n]

\* _list[id]._count += n on instance d; an id outside [0, Nr) is an access
\* past the end of the array and leaves the slot table as it is
AddOn(d, id, n) ==
  IF id \in Slots THEN [lists EXCEPT ![d][id] = lists[d][id] + n] ELSE lists

\* ~UnUser(): if (_prot != nullptr)
Owns(g) == g.prot # nullptr

\* (variant of MovedFrom: the source of a move keeps its _prot)
MovedFromStillOwns(g) == g

\* UnUser(UnUser&& that): that._prot = nullptr
MovedFrom(g) == [g EXCEPT !.prot = nullptr]

\* (variant of StoreMySlot: the thread does not remember its slot)
StoreMySlotNever(t) == _mySlot

\* _mySlot = id
StoreMySlot(t) == [_mySlot EXCEPT ![t] = uid[t]]

\* the sequence q without its k-th element
RemoveAt(q, k) == [j \in 1..(Len(q) - 1) |-> IF j < k THEN q[j] ELSE q[j + 1]]

\* the counter of slot id of instance d as a thread reads it (-1: no such slot)
CountAt(L, d, id) == IF id \in Slots THEN L[d][id] ELSE -1

\* the UnUser objects alive, as pairs of thread and position
LiveGuards == {x \in PReaders \X GuardIndex : x[2] \in DOMAIN guards[x[1]]}

\* the guard at x
GuardAt(x) == guards[x[1]][x[2]]

\* a use() call may begin: the guard it returns is within the bound
RoomForGuard ==
  Cardinality(LiveGuards) + Cardinality({t \in PReaders : upc[t] # "idle"})
    < MaxGuards

\* history: guards of the observed use() call are alive
Observing == \E x \in LiveGuards : GuardAt(x).obs

\* history: an operation that is not the observed call's own acts on slot id
\* of instance d before the observed acquire is released; an observation
\* whose guards are all gone ends with the next operation on a counter
Disturbed(d, id) ==
  IF ~Observing THEN NoProbe
  ELSE IF probe.on /\ probe.rel = 0 /\ probe.d = d /\ probe.id = id
    THEN [probe EXCEPT !.clean = FALSE, !.pre = -1]
  ELSE probe

\* use() on instance d: id = _mySlot; if (id < 0) id = _last++;
UAlloc(t, d) ==
  /\ ~crashed
  /\ UNCHANGED <<gvars, progvars, mvars, ovars>>
  /\ upc[t] = "idle"
  /\ RoomForGuard
  /\ _mySlot[t] < 0
  /\ uid' = [uid EXCEPT ![t] = lasts[d]]
  /\ lasts' = [lasts EXCEPT ![d] = lasts[d] + 1]
  /\ uinst' = [uinst EXCEPT ![t] = d]
  /\ upc' = [upc EXCEPT ![t] = "chkLast"]
  /\ UNCHANGED <<lists, guards, probe, _mySlot, crashed, oobSeen>>

\* if (_last > Nr) ...; otherwise _mySlot = id
UChkLast(t) ==
  /\ ~crashed
  /\ UNCHANGED <<gvars, progvars, mvars, ovars>>
  /\ upc[t] = "chkLast"
  /\ IF LastWraps(lasts[uinst[t]])
       THEN /\ upc' = [upc EXCEPT ![t] = "resetLast"]
            /\ _mySlot' = _mySlot
       ELSE /\ upc' = [upc EXCEPT ![t] = "inc"]
            /\ _mySlot' = StoreMySlot(t)
  /\ UNCHANGED <<lists, lasts, uid, uinst, guards, probe, crashed, oobSeen>>

\* _last = 0; _mySlot = id
UResetLast(t) ==
  /\ ~crashed
  /\ UNCHANGED <<gvars, progvars, mvars, ovars>>
  /\ upc[t] = "resetLast"
  /\ lasts' = [lasts EXCEPT ![uinst[t]] = 0]
  /\ _mySlot' = StoreMySlot(t)
  /\ upc' = [upc EXCEPT ![t] = "inc"]
  /\ UNCHANGED <<lists, uid, uinst, guards, probe, crashed, oobSeen>>

\* _list[id]._count++; return UnUser(this, id).  A call by a thread whose
\* _mySlot is set begins here with id = _mySlot.  A call of an observed
\* thread may become the observed one when no observed guard is alive.
UInc(t, d) ==
  /\ ~crashed
  /\ UNCHANGED <<gvars, progvars, mvars, ovars>>
  /\ \/ upc[t] = "inc" /\ d = uinst[t]
     \/ upc[t] = "idle" /\ _mySlot[t] >= 0 /\ RoomForGuard
  /\ LET id == IF upc[t] = "inc" THEN uid[t] ELSE _mySlot[t]
         made == /\ \E o \in (IF Observing \/ t \notin ObservedThreads
                                     THEN {FALSE} ELSE {FALSE, TRUE}) :
                      /\ guards' = [guards EXCEPT ![t] =
                                      Append(guards[t],
                                             [prot |-> d, id |-> id, obs |-> o])]
                      /\ probe' = IF o THEN [on |-> TRUE, d |-> d, id |-> id,
                                             pre |-> CountAt(lists, d, id),
                                             clean |-> TRUE, rel |-> 0,
                                             post |-> -1]
                                       ELSE Disturbed(d, id)
                 /\ upc' = [upc EXCEPT ![t] = "idle"]
                 /\ uinst' = [uinst EXCEPT ![t] = nullptr]
                 /\ uid' = [uid EXCEPT ![t] = -1]
     IN /\ lists' = AddOn(d, id, 1)
        /\ IF id \in Slots
             THEN made /\ UNCHANGED <<oobSeen, crashed>>
             ELSE /\ oobSeen' = TRUE
                  /\ \/ /\ crashed' = TRUE
                        /\ UNCHANGED <<guards, probe, upc, uinst, uid>>
                     \/ crashed' = crashed /\ made
  /\ UNCHANGED <<lasts, _mySlot>>

\* UnUser(UnUser&& that): a new guard takes _prot and _id of guard k of
\* thread t, which stays alive with _prot = nullptr
UMove(t, k) ==
  /\ ~crashed
  /\ UNCHANGED <<gvars, progvars, mvars, ovars>>
  /\ upc[t] = "idle"
  /\ k \in DOMAIN guards[t]
  /\ RoomForGuard
  /\ guards' = [guards EXCEPT
                  ![t] = Append([guards[t] EXCEPT ![k] = MovedFrom(guards[t][k])],
                                guards[t][k])]
  /\ UNCHANGED <<lists, lasts, upc, uid, uinst, probe, _mySlot, crashed,
                 oobSeen>>

\* ~UnUser() of guard k of thread t: if (_prot != nullptr) _prot->unUse(_id),
\* that is _list[_id]._count--
UDestroy(t, k) ==
  /\ ~crashed
  /\ UNCHANGED <<gvars, progvars, mvars, ovars>>
  /\ upc[t] = "idle"
  /\ k \in DOMAIN guards[t]
  /\ guards' = [guards EXCEPT ![t] = RemoveAt(guards[t], k)]
  /\ LET g == guards[t][k] IN
       IF Owns(g)
         THEN /\ lists' = AddOn(g.prot, g.id, -1)
              /\ probe' = IF g.obs
                             THEN [probe EXCEPT
                                     !.rel = probe.rel + 1,
                                     !.post = IF probe.clean
                                                THEN CountAt(lists', g.prot, g.id)
                                                ELSE -1,
                                     !.d = nullptr, !.id = -1]
                             ELSE Disturbed(g.prot, g.id)
              /\ IF g.id \in Slots
                   THEN UNCHANGED <<oobSeen, crashed>>
                   ELSE oobSeen' = TRUE /\ crashed' \in {crashed, TRUE}
         ELSE UNCHANGED <<lists, probe, oobSeen, crashed>>
  /\ UNCHANGED <<lasts, upc, uid, uinst, _mySlot>>

\* Fair scheduling of the writer: a scan() or delete it has begun goes on.
\* Nothing is assumed of the readers.
PFairness == WF_vars(Scan) /\ WF_vars(WriterDelete)

\* ----------------------------------------------------- specification
\* The two classes share no state; each is run with its own clients.
Init == GInit /\ PInit /\ UInit /\ MInit /\ OInit

GNext ==
  \/ \E t \in GReaders : LeaseLoadV(t)
  \/ \E t \in GReaders : LeaseLoadP(t)
  \/ \E t \in GReaders : LeaseStoreH(t)
  \/ \E t \in GReaders : LeaseRecheck(t)
  \/ \E t \in GReaders : LeaseClearH(t)
  \/ \E t \in GReaders : Unlease(t)
  \/ \E w \in GWriters : ExLock(w)
  \/ \E w \in GWriters : ExStoreP(w)
  \/ \E w \in GWriters : ExFlipV(w)
  \/ \E w \in GWriters : ExScan(w)
  \/ \E w \in GWriters : ExDelete(w)
  \/ \E w \in GWriters : ExNullP(w)
  \/ \E w \in GWriters : DtorLock(w)
  \/ \E w \in GWriters : DtorScan(w)
  \/ \E w \in GWriters : DtorDelete(w)
  \/ \E w \in GWriters : DtorNullP(w)

\* DataGuardian with its readers and its writer
SpecG == Init /\ [][GNext]_vars

\* a step of the caller that passes a thread id outside [0, maxNrThreads)
BadIdStep ==
  \/ BadLeaseLoadV
  \/ BadLeaseLoadP
  \/ BadLeaseStoreH
  \/ BadLeaseRecheck
  \/ BadLeaseClearH
  \/ BadUnlease

MNext ==
  \/ BadLeaseLoadV
  \/ BadLeaseLoadP
  \/ BadLeaseStoreH
  \/ BadLeaseRecheck
  \/ BadLeaseClearH
  \/ BadUnlease
  \/ \E w \in GWriters : ExLock(w)
  \/ \E w \in GWriters : ExStoreP(w)
  \/ \E w \in GWriters : ExFlipV(w)
  \/ \E w \in GWriters : ExScan(w)
  \/ \E w \in GWriters : ExDelete(w)
  \/ \E w \in GWriters : ExNullP(w)

\* DataGuardian with its writer and a caller whose thread id is out of range
SpecM == Init /\ [][MNext]_vars

\* a step of reader t inside a lease() call that has begun
LeaseStep(t) ==
  \/ gpc[t] = "retry" /\ LeaseLoadV(t)
  \/ LeaseLoadP(t)
  \/ LeaseStoreH(t)
  \/ LeaseRecheck(t)
  \/ LeaseClearH(t)

\* a step of writer w inside an exchange() call that holds the mutex
ExchangeStep(w) ==
  \/ ExStoreP(w)
  \/ ExFlipV(w)
  \/ ExScan(w)
  \/ ExDelete(w)
  \/ ExNullP(w)

\* a step of writer w inside the destructor
DtorStep(w) ==
  \/ DtorScan(w)
  \/ DtorDelete(w)
  \/ DtorNullP(w)

GNext2 ==
  \/ \E t \in GReaders1 : LeaseLoadV(t)
  \/ \E t \in GReaders1 : LeaseLoadP(t)
  \/ \E t \in GReaders1 : LeaseStoreH(t)
  \/ \E t \in GReaders1 : LeaseRecheck(t)
  \/ \E t \in GReaders1 : LeaseClearH(t)
  \/ \E t \in GReaders1 : Unlease(t)
  \/ \E w \in GWriters2 : ExLock(w)
  \/ \E w \in GWriters2 : ExStoreP(w)
  \/ \E w \in GWriters2 : ExFlipV(w)
  \/ \E w \in GWriters2 : ExScan(w)
  \/ \E w \in GWriters2 : ExDelete(w)
  \/ \E w \in GWriters2 : ExNullP(w)
  \/ \E w \in GWriters2 : DtorLock(w)
  \/ \E w \in GWriters2 : DtorScan(w)
  \/ \E w \in GWriters2 : DtorDelete(w)
  \/ \E w \in GWriters2 : DtorNullP(w)

\* reader ids of a run of reader_protector with one reader
PReaders1 == {0}

\* main runs one mode at a time: the threads of writer_guardian and
\* reader_guardian first, those of writer_protector and reader_protector
\* after the former have been joined
GuardianIdle ==
  /\ \A t \in GReaders : gpc[t] = "idle"
  /\ \A w \in GWriters2 : wpc[w] = "idle"

ProtectorIdle ==
  /\ npub = 0 /\ _last = 0
  /\ \A t \in PReaders : ppc[t] = "idle" /\ _mySlot[t] < 0

RunLeaseLoadV(t) == ProtectorIdle /\ LeaseLoadV(t)

RunExLock(w) == ProtectorIdle /\ ExLock(w)

RunUseAlloc(t) == GuardianIdle /\ UseAlloc(t)

RunUseInc(t) == GuardianIdle /\ UseInc(t)

RunWriterSwap == GuardianIdle /\ WriterSwap

ONext ==
  \/ \E t \in GReaders1 : RunLeaseLoadV(t)
  \/ \E t \in GReaders1 : LeaseLoadP(t)
  \/ \E t \in GReaders1 : LeaseStoreH(t)
  \/ \E t \in GReaders1 : LeaseRecheck(t)
  \/ \E t \in GReaders1 : LeaseClearH(t)
  \/ \E t \in GReaders1 : LookAtLeased(t)
  \/ \E t \in GReaders1 : Unlease(t)
  \/ \E w \in GWriters : RunExLock(w)
  \/ \E w \in GWriters : ExStoreP(w)
  \/ \E w \in GWriters : ExFlipV(w)
  \/ \E w \in GWriters : ExScan(w)
  \/ \E w \in GWriters : ExDelete(w)
  \/ \E w \in GWriters : ExNullP(w)
  \/ \E t \in PReaders1 : RunUseAlloc(t)
  \/ \E t \in PReaders1 : UseChkLast(t)
  \/ \E t \in PReaders1 : RunUseInc(t)
  \/ \E t \in PReaders1 : ReadP(t)
  \/ \E t \in PReaders1 : LookAtGuarded(t)
  \/ \E t \in PReaders1 : ReadData(t)
  \/ \E t \in PReaders1 : DropGuard(t)
  \/ RunWriterSwap
  \/ Scan
  \/ WriterDelete

\* a run of one mode, guardian or protector, with one reader and the writer,
\* and the reader's observations recorded
SpecO == Init /\ [][ONext]_vars

\* DataGuardian with one reader and two threads that publish and tear down
SpecG2 == Init /\ [][GNext2]_vars

\* Fair scheduling: a thread that is inside a call keeps running, and a reader
\* that holds a lease calls unlease(); nothing obliges a thread to begin a
\* lease(), an exchange() or the teardown.
GFairness ==
  /\ \A t \in GReaders1 : WF_vars(LeaseStep(t)) /\ WF_vars(Unlease(t))
  /\ \A w \in GWriters2 : WF_vars(ExchangeStep(w)) /\ WF_vars(DtorStep(w))

\* DataGuardian with one reader and two publishers under fair scheduling
SpecGFair == Init /\ [][GNext2]_vars /\ GFairness

PNext ==
  \/ \E t \in PReaders : UseAlloc(t)
  \/ \E t \in PReaders : UseChkLast(t)
  \/ \E t \in PReaders : UseResetLast(t)
  \/ \E t \in PReaders : UseInc(t)
  \/ \E t \in PReaders : ReadP(t)
  \/ \E t \in PReaders : ReadData(t)
  \/ \E t \in PReaders : DropGuard(t)
  \/ WriterSwap
  \/ Scan
  \/ WriterDelete

\* DataProtector with its readers and its writer
SpecP == Init /\ [][PNext]_vars

\* DataProtector with the writer scheduled fairly
SpecPFair == Init /\ [][PNext]_vars /\ PFairness

UNext ==
  \/ \E t \in PReaders, d \in Instances : UAlloc(t, d)
  \/ \E t \in PReaders : UChkLast(t)
  \/ \E t \in PReaders : UResetLast(t)
  \/ \E t \in PReaders, d \in Instances : UInc(t, d)
  \/ \E t \in PReaders, k \in GuardIndex : UMove(t, k)
  \/ \E t \in PReaders, k \in GuardIndex : UDestroy(t, k)

\* DataProtector objects used through guards by the threads of PReaders
SpecU == Init /\ [][UNext]_vars

Next == GNext \/ PNext \/ UNext

Spec == Init /\ [][Next]_vars

\* ------------------------------------------------------------- types
GTypeOK ==
  /\ _P \in [0..1 -> Ptr]
  /\ _V \in 0..1
  /\ _H \in [HIndex -> Ptr]
  /\ \A s \in Snapshots : delCount[s] \in 0..2
  /\ Len(pub) <= MaxExch

\* ============================================================== claims
Published == {pub[k] : k \in 1..Len(pub)} \ {nullptr}
PubIdx(s) == CHOOSE k \in 1..Len(pub) : pub[k] = s

\* C1: while a reader holds a lease on a non-null snapshot (lease returned,
\* unlease not yet called; only lease, unlease and exchange of fresh snapshots
\* have run), that snapshot has not been deleted.
C1_LeasedNotDeleted ==
  \A t \in GReaders :
    (/\ dtor = "no"
     /\ \A k \in 1..Len(pub) : pub[k] # nullptr
     /\ gpc[t] = "leased" /\ gp[t] # nullptr) => delCount[gp[t]] = 0

\* reader threads that have called use() at least once
Users == {t \in PReaders : _mySlot[t] >= 0 \/ ppc[t] # "idle"}

\* C2: as long as at most Nr reader threads have called use(), with one writer
\* following store / scan / delete, no reader reads a snapshot that has been
\* deleted: a reader about to dereference its copy of P holds a snapshot that
\* is not deleted, and no read of a deleted snapshot has happened.
C2_NoReadAfterDelete ==
  Cardinality(Users) <= Nr =>
    /\ ~alarmsSeen
    /\ \A t \in PReaders :
         (ppc[t] = "read" /\ pp[t] # nullptr) => pdel[pp[t]] = 0

\* C2 witness: the writer has published a replacement and is held in scan()
\* by a reader that is about to read the retired snapshot.
C2_Witness ==
  /\ Cardinality(Users) <= Nr
  /\ \E t \in PReaders : /\ ppc[t] = "read" /\ pp[t] # nullptr
                         /\ qpc = "scan" /\ qq = pp[t] /\ pointerToData # pp[t]
                         /\ SlotBusy(qi)

\* C3: with more reader threads than slots, every counter stays non-negative
\* and no reader reads a deleted snapshot.
C3_ManyThreadsSafe ==
  /\ ~alarmsSeen
  /\ \A i \in Slots : _list[i] >= 0

\* C4: every slot index use() assigns to a thread, and every index it uses on
\* the slot table, lies in [0, Nr).
C4_SlotInRange ==
  /\ \A t \in PReaders : _mySlot[t] >= 0 => _mySlot[t] \in Slots
  /\ ~oobSeen

\* C5: a snapshot is never deleted twice; it is not deleted before the
\* exchange() after its own publication retires it (or the destructor finds it
\* live); it is deleted once that exchange() (or the destructor) has passed
\* its delete; after teardown every snapshot handed to exchange() has been
\* deleted exactly once.
C5_DeletedExactlyOnce ==
  \A s \in Snapshots :
    /\ delCount[s] <= 1
    /\ s \notin Published => delCount[s] = 0
    /\ s \in Published =>
         LET k == PubIdx(s)
             gone == IF k < Len(pub)
                       THEN k + 1 <= nret \/ \E w \in GWriters : wpc[w] = "nullP"
                       ELSE dtor = "done" \/ \E w \in GWriters : wpc[w] = "dnull"
         IN  delCount[s] = IF gone THEN 1 ELSE 0
    /\ (dtor = "done" /\ (s \in Published \/ \E w \in GWriters : wr[w] = s))
         => delCount[s] = 1

\* C5 witness: teardown has finished after MaxExch snapshots were published.
C5_Witness ==
  /\ dtor = "done"
  /\ Published = Snapshots
  /\ \A s \in Snapshots : delCount[s] = 1

\* C6: a lease() invoked after exchange(s') returned yields s' or a value
\* published later.
C6_LeaseSeesPublished ==
  \A t \in GReaders :
    (gpc[t] = "leased" /\ floor[t] >= 1)
      => gp[t] \in {pub[k] : k \in floor[t]..Len(pub)}

\* C7: the value lease() returns was the value of _P[_V] at some instant
\* between the call's invocation and its return.
C7_LeaseReturnsLive ==
  \A t \in GReaders : gpc[t] = "leased" => gp[t] \in seenLive[t]

\* C8: while thread t holds a lease on s, _H[t] = s; after a failed re-check
\* _H[t] is null again before the retry, and outside a lease _H[t] is null.
C8_HazardInvariant ==
  \A t \in GReaders :
    /\ gpc[t] = "leased" => _H[t] = gp[t]
    /\ gpc[t] \in {"idle", "retry", "loadP", "storeH"} => _H[t] = nullptr

\* C8 witness: one reader is about to retry after a failed re-check while the
\* other holds a lease on a snapshot.
C8_Witness ==
  \E t, u \in GReaders :
    /\ gpc[t] = "retry"
    /\ gpc[u] = "leased" /\ gp[u] # nullptr /\ _H[u] = gp[u]

\* C9: while scan() runs it has observed slots 0..i-1 at zero, in that order;
\* when it returns it has observed every slot 0..Nr-1 at zero, in that order.
C9_ScanSawEachZero ==
  /\ qpc = "scan" => scanLog = [k \in 1..qi |-> k - 1]
  /\ qpc = "delete" => scanLog = [k \in 1..Nr |-> k - 1]

\* C9 witness: scan() has returned while a slot it passed is positive again.
C9_Witness ==
  /\ qpc = "delete"
  /\ \E i \in Slots : _list[i] > 0

\* C10: exchange() holds the mutex throughout; the replacement is in the
\* inactive slot before V is flipped; the retired snapshot is untouched until
\* a complete pass over the hazard table, begun after the flip, found no slot
\* equal to it; only then is it deleted, and only after that is its slot
\* set to null.
C10_ExchangeOrder ==
  \A w \in GWriters :
    /\ wpc[w] \in {"storeP", "flipV", "scan", "delete", "nullP"} => _mutex = w
    /\ wpc[w] = "storeP" => _V = wv[w]
    /\ wpc[w] = "flipV" => _V = wv[w] /\ _P[1 - wv[w]] = wr[w]
    /\ wpc[w] \in {"scan", "delete", "nullP"}
         => /\ _V = 1 - wv[w]
            /\ _P[_V] = wr[w]
            /\ _P[wv[w]] = wp[w]
    /\ (wpc[w] \in {"scan", "delete"} /\ wp[w] # nullptr) => delCount[wp[w]] = 0
    /\ wpc[w] \in {"delete", "nullP"} => scanned = HIndex
    /\ (wpc[w] = "nullP" /\ wp[w] # nullptr) => delCount[wp[w]] = 1

\* C10 witness: exchange() has deleted a retired snapshot and is about to set
\* its slot to null, while a reader holds a lease on the new live snapshot.
C10_Witness ==
  \E w \in GWriters :
    /\ wpc[w] = "nullP" /\ wp[w] # nullptr /\ delCount[wp[w]] = 1
    /\ \E t \in GReaders : gpc[t] = "leased" /\ gp[t] = _P[_V] /\ gp[t] # nullptr

\* threads inside the body of exchange() or of the destructor
Inside == {w \in GWriters2 : wpc[w] # "idle"}

\* C11: at most one thread at a time is inside the body of exchange() or of
\* the destructor, and that thread holds the mutex; so at most one thread is
\* at a step that writes _V, _P[0] or _P[1].
C11_PublishersExclusive ==
  /\ Cardinality(Inside) <= 1
  /\ \A w \in Inside : _mutex = w
  /\ Inside = {} => _mutex = unlocked
  /\ Cardinality({w \in GWriters2 :
                    wpc[w] \in {"storeP", "flipV", "nullP", "dnull"}}) <= 1

\* C11 witness: after an earlier exchange() has returned, one thread is waiting
\* in exchange() for hazards while the other one is kept out by the mutex.
C11_Witness ==
  \E w, u \in GWriters2 :
    /\ w # u
    /\ wpc[w] = "scan" /\ HazardAt(wi[w], wp[w]) /\ _mutex = w
    /\ wpc[u] = "idle" /\ nexch < MaxExch /\ dtor = "no" /\ nret >= 1
    /\ ~ENABLED ExLock(u)

\* the snapshot that is live when teardown begins: the last one published
TornDown == IF pub = <<>> THEN nullptr ELSE pub[Len(pub)]

\* the destructor is at its delete statement or past it
DtorDeleting == dtor = "done" \/ \E w \in GWriters : wpc[w] \in {"ddelete", "dnull"}

C19_HazardNullOutsideLease ==
  \A i \in HIndex : (i \notin GReaders \/ gpc[i] = "idle") => _H[i] = nullptr

\* C19 witness: a reader whose lease() retried has called unlease() and its
\* slot is null, while the slot of another reader holds a snapshot.
C19_Witness ==
  \E t, u \in GReaders :
    /\ gpc[t] = "idle" /\ retried[t] /\ _H[t] = nullptr
    /\ gpc[u] = "leased" /\ _H[u] # nullptr

\* writer w is inside an exchange() call
InExchange(w) == wpc[w] \in {"storeP", "flipV", "scan", "delete", "nullP"}

\* C14: under fair scheduling, with every lease followed by its unlease,
\* every exchange() call that has entered its body returns, also in runs in
\* which the reader goes on taking leases for ever.
C14_ExchangeReturns ==
  \A w \in GWriters2 : InExchange(w) ~> (wpc[w] = "idle")

\* C14 witness: after an earlier exchange() has returned, exchange() is
\* waiting at the slot of a reader that holds a lease on the retired snapshot.
C14_Witness ==
  \E w \in GWriters2, t \in GReaders1 :
    /\ wpc[w] = "scan" /\ wi[w] = t /\ HazardAt(t, wp[w])
    /\ gpc[t] = "leased" /\ gp[t] = wp[w]
    /\ _P[_V] # wp[w]
    /\ nret >= 1

\* every counter of the slot table is zero
AllZero == \A i \in Slots : _list[i] = 0

\* C13: in a run of the live process in which the counters are eventually all
\* zero for good, the fairly scheduled writer leaves every scan() call it
\* makes.
C13_ScanReturns ==
  ([]~crashed /\ <>[]AllZero) => ((qpc = "scan") ~> (qpc = "delete"))

\* C13 witness: scan() is waiting on a slot that a reader has incremented.
C13_Witness ==
  /\ qpc = "scan" /\ scanWaited /\ SlotBusy(qi)
  /\ \E t \in PReaders : ppc[t] \in {"loadP", "read", "drop"} /\ pid[t] = qi

\* the writer takes a step of scan() that changes its state
ScanActs ==
  /\ qpc = "scan"
  /\ <<qi, qpc, scanLog, scanWaited>>' # <<qi, qpc, scanLog, scanWaited>>

\* C20: a step of scan() taken while all counters are zero does not wait: it
\* passes its slot, and it leaves every counter and the cursor _last as they
\* are; this holds for every scan() call of the run.
C20_ScanIdempotentAtQuiescence ==
  [][ScanActs /\ AllZero =>
       /\ scanWaited' = scanWaited
       /\ (qi' = qi + 1 /\ qpc' = "scan") \/ (qi' = 0 /\ qpc' = "delete")
       /\ _list' = _list
       /\ _last' = _last]_vars

\* C20 witness: the second scan() call of the run has returned without ever
\* waiting, having read every slot as zero, and all counters are zero.
C20_Witness ==
  /\ qpc = "delete" /\ npub = MaxPub /\ npub >= 2
  /\ ~scanWaited /\ AllZero /\ Len(scanLog) = Nr
  /\ \A t \in PReaders : ppc[t] = "idle"
  /\ Users # {}

\* the live guards of the observed use() call that would release on destruction
ObservedOwners == {x \in LiveGuards : GuardAt(x).obs /\ Owns(GuardAt(x))}

\* C15: for a use() call, at most one live guard owns the acquire, however
\* the guard was moved; no unUse() has been made for it while that guard is
\* alive and exactly one once it is destroyed, whatever moved-from guards of
\* the call are destroyed before or after.
C15_GuardReleasesOnce ==
  probe.on =>
    /\ Cardinality(ObservedOwners) <= 1
    /\ probe.rel = IF ObservedOwners = {} THEN 1 ELSE 0

\* C15 witness: the guard of the observed call was moved, the guard moved to
\* was destroyed and released once, and the moved-from guard is still alive.
C15_Witness ==
  /\ probe.on /\ probe.rel = 1
  /\ \E x \in LiveGuards : GuardAt(x).obs /\ ~Owns(GuardAt(x))

\* live guards that hold an acquire on slot i of instance d
Holders(d, i) ==
  {x \in LiveGuards : Owns(GuardAt(x)) /\ GuardAt(x).prot = d /\ GuardAt(x).id = i}

\* C16: every counter equals the number of live guards that hold an acquire
\* on its slot, guards of one thread included; so no counter is negative and
\* all are zero when no guard is held.
C16_CounterInvariant ==
  \A d \in Instances : \A i \in Slots : lists[d][i] = Cardinality(Holders(d, i))

\* C16 witness: one thread holds two guards on the same slot of one instance
\* and the counter is two or more.
C16_Witness ==
  \E t \in PReaders, d \in Instances :
    /\ Len(guards[t]) >= 2
    /\ Owns(guards[t][1]) /\ guards[t][1].prot = d
    /\ Owns(guards[t][2]) /\ guards[t][2].prot = d
    /\ guards[t][1].id \in Slots
    /\ lists[d][guards[t][1].id] >= 2

\* C17: once assigned, the slot index of a thread never changes, and every
\* acquire in progress and every guard of the thread, on whichever instance,
\* carries that index.
C17_SlotStable ==
  /\ [](\A t \in PReaders :
          /\ \A k \in DOMAIN guards[t] : guards[t][k].id = _mySlot[t]
          /\ upc[t] = "inc" => uid[t] = _mySlot[t])
  /\ [][\A t \in PReaders : _mySlot[t] >= 0 => _mySlot'[t] = _mySlot[t]]_vars

\* C17 witness: a thread holds guards on two instances with its one index,
\* and another thread has a different index.
C17_Witness ==
  \E t, u \in PReaders :
    /\ Len(guards[t]) >= 2
    /\ Owns(guards[t][1]) /\ Owns(guards[t][2])
    /\ guards[t][1].prot # guards[t][2].prot
    /\ guards[t][1].id = _mySlot[t] /\ guards[t][2].id = _mySlot[t]
    /\ _mySlot[u] >= 0 /\ _mySlot[u] # _mySlot[t]

\* C18: when a use() call and the drop of its guard had no other operation
\* on their slot in between, the counter read after the drop equals the
\* counter read before the call; and no step changes more than one counter.
C18_UseDropRoundTrip ==
  /\ [](probe.on /\ probe.rel >= 1 /\ probe.clean => probe.post = probe.pre)
  /\ [][\A d, e \in Instances : \A i, j \in Slots :
           lists'[d][i] # lists[d][i] /\ <<d, i>> # <<e, j>> =>
             lists'[e][j] = lists[e][j]]_vars

\* C18 witness: an undisturbed use() and drop on a slot whose counter was
\* already above zero has ended.
C18_Witness ==
  /\ probe.on /\ probe.rel = 1 /\ probe.clean
  /\ probe.pre >= 1 /\ probe.post = probe.pre
  /\ ~Observing

\* the pointer writer w is about to delete
ToDelete(w) == IF wpc[w] = "ddelete" THEN _P[_V] ELSE wp[w]

\* C21: publishing null is permitted.  Once exchange(nullptr) has returned,
\* the snapshot that was live before it has been deleted once; a lease()
\* invoked while null is live, with no publish since, returns null; while an
\* exchange() or the destructor retires null no hazard slot counts as a
\* hazard, so it does not wait; and its delete leaves the heap as it is.
C21_NullPublish ==
  /\ [](/\ \A k \in 2..Len(pub) :
             (pub[k] = nullptr /\ k <= nret /\ pub[k - 1] # nullptr)
               => delCount[pub[k - 1]] = 1
        /\ \A t \in GReaders :
             (gpc[t] = "leased" /\ floor[t] >= 1 /\ Len(pub) = floor[t]
              /\ pub[floor[t]] = nullptr) => gp[t] = nullptr
        /\ \A w \in GWriters :
             (wpc[w] \in {"scan", "dscan"} /\ wp[w] = nullptr)
               => \A i \in HIndex : ~HazardAt(i, wp[w]))
  /\ [][\A w \in GWriters :
           (wpc[w] \in {"delete", "ddelete"} /\ wpc'[w] # wpc[w]
            /\ ToDelete(w) = nullptr) => delCount' = delCount]_vars

\* C21 witness: after exchange(nullptr) has retired and deleted a snapshot,
\* a reader holds a lease that returned null, and the next exchange(), which
\* retires null, scans while another hazard slot holds the new snapshot.
C21_Witness ==
  \E w \in GWriters, t, u \in GReaders :
    /\ Len(pub) >= 3
    /\ pub[Len(pub) - 2] # nullptr /\ delCount[pub[Len(pub) - 2]] = 1
    /\ pub[Len(pub) - 1] = nullptr
    /\ wpc[w] = "scan" /\ wp[w] = nullptr
    /\ gpc[t] = "leased" /\ floor[t] = Len(pub) - 1
    /\ gp[t] = nullptr /\ _H[t] = nullptr
    /\ _H[u] # nullptr /\ _H[u] = _P[_V]

\* the steps of use() by thread t
UseStep(t) == UseAlloc(t) \/ UseChkLast(t) \/ UseResetLast(t) \/ UseInc(t)

\* position of a reader inside one pass of reader_protector's loop body
PcRank(pc) ==
  CASE pc = "idle" -> 0
    [] pc = "chkLast" -> 1
    [] pc = "resetLast" -> 2
    [] pc = "inc" -> 3
    [] pc = "loadP" -> 4
    [] pc = "read" -> 5
    [] pc = "drop" -> 6

\* C22: reader wait-freedom of DataProtector.  While the process runs, a
\* thread that calls use() or is inside it, and a thread about to drop its
\* guard, always has its next step enabled, whatever the writer and the
\* other readers do; every step of use() moves the thread strictly forward
\* through the at most four steps of use() (no step is repeated), and the
\* drop is a single step.
C22_ReadersWaitFree ==
  /\ [](~crashed =>
         \A t \in PReaders :
           /\ ppc[t] \in {"idle", "chkLast", "resetLast", "inc"}
                => ENABLED UseStep(t)
           /\ ppc[t] = "drop" => ENABLED DropGuard(t))
  /\ [][\A t \in PReaders :
           /\ UseStep(t) /\ ~crashed'
                => /\ PcRank(ppc'[t]) > PcRank(ppc[t])
                   /\ PcRank(ppc'[t]) <= PcRank("loadP")
           /\ DropGuard(t) => ppc'[t] = "idle"]_vars

\* C22 witness: scan() has waited and is still held up by a busy slot while
\* one reader is inside use() before its increment and another is about to
\* drop its guard.
C22_Witness ==
  /\ ~crashed
  /\ qpc = "scan" /\ scanWaited /\ SlotBusy(qi)
  /\ \E t, u \in PReaders :
       /\ ppc[t] = "inc"
       /\ ppc[u] = "drop" /\ pid[u] = qi

\* C23: lease() retries only under contention with a publish.  The (YYY)
\* re-check sends a reader into another iteration, and a call becomes one that
\* has retried, only if exchange() wrote _V after the (XXX) load of that
\* iteration; no step of lease() or unlease() changes _mutex; and the next
\* step of a reader calling lease(), inside lease() or calling unlease() is
\* enabled in every state, also while exchange() waits for hazards.
C23_RetryOnlyOnFlip ==
  /\ [][\A t \in GReaders :
           /\ (gpc[t] = "recheck" /\ gpc'[t] = "clearH") => flipped[t]
           /\ gpc'[t] # gpc[t] => _mutex' = _mutex]_vars
  /\ [](\A t \in GReaders :
           /\ retried[t] => Len(pub) >= 1
           /\ (gpc[t] = "leased" /\ Len(pub) = floor[t]) => ~retried[t]
           /\ (gpc[t] = "idle" /\ dtor = "no") => ENABLED LeaseLoadV(t)
           /\ InLease(t) => ENABLED LeaseStep(t)
           /\ gpc[t] = "leased" => ENABLED Unlease(t))

\* C23 witness: a lease() call that retried once after a publish has returned
\* from its second iteration, which no publish overlapped, while the writer
\* holds the mutex and waits in its hazard scan for another reader.
C23_Witness ==
  \E t, u \in GReaders, w \in GWriters :
    /\ gpc[t] = "leased" /\ retried[t]
    /\ wpc[w] = "scan" /\ _mutex = w /\ HazardAt(wi[w], wp[w])
    /\ gpc[u] = "leased" /\ _H[u] = wp[w]

\* C24: lease(id) and unlease(id) with id outside [0, maxNrThreads) leave the
\* hazard table, P and V unchanged and the process running, as a call that
\* is rejected on entry does.
C24_BadIdRejected ==
  [][BadIdStep => (_H' = _H /\ _P' = _P /\ _V' = _V /\ ~killed')]_vars

\* C25: ordering argument of lease().  If the (YYY) re-load of V returns the
\* value of the (XXX) load, so that lease() returns, then exchange() wrote V
\* at no time between the (XXX) load and the store to H[id]; put the other
\* way, after a flip of V before the hazard store the re-load differs and
\* the lease retries.
C25_RecheckOrdersStore ==
  [][\A t \in GReaders :
       (gpc[t] = "recheck" /\ gpc'[t] = "leased") => ~flippedEarly[t]]_vars

\* the live snapshot: the value most recently published, null before the
\* first publish
Live == IF Len(pub) = 0 THEN nullptr ELSE pub[Len(pub)]

\* the writer that is retiring snapshot x: past its flip of V, not yet returned
Retiring(x) ==
  \E w \in GWriters2 : wpc[w] \in {"scan", "delete", "nullP"} /\ wp[w] = x

\* the writer that has stored replacement x and has not yet flipped V
Staged(x) == \E w \in GWriters2 : wpc[w] = "flipV" /\ wr[w] = x

\* C26 (as stated): in every reachable state of a guardian that has not been
\* destroyed, P[V] is the live snapshot and P[1-V] is either null or the
\* snapshot currently being retired.
C26_PairAsStated ==
  dtor # "done" =>
    /\ _P[_V] = Live
    /\ _P[1 - _V] = nullptr \/ Retiring(_P[1 - _V])

\* C26 (amended): in every reachable state of a guardian that has not been
\* destroyed, P[V] is the live snapshot and P[1-V] is null, the snapshot
\* currently being retired, or the replacement that the running exchange()
\* has stored and not yet published.
C26_PairInvariant ==
  dtor # "done" =>
    /\ _P[_V] = Live
    /\ \/ _P[1 - _V] = nullptr
       \/ Retiring(_P[1 - _V])
       \/ Staged(_P[1 - _V])

\* C26 witness: between the store of a replacement and the flip of V, with a
\* non-null live snapshot in P[V] and the replacement in P[1-V].
C26_Witness ==
  /\ _P[_V] # nullptr /\ _P[_V] = Live
  /\ _P[1 - _V] # nullptr /\ Staged(_P[1 - _V])
  /\ ~Retiring(_P[1 - _V])

\* state of snapshot slot _P[i]: Retiring from the flip of V away from it (or
\* from the start of teardown) to the delete, Destroyed from the delete to
\* the store of null, Live while V selects it, Unused otherwise
SlotState(i) ==
  IF \E w \in GWriters2 :
       wpc[w] \in {"scan", "delete", "dscan", "ddelete"} /\ wv[w] = i
    THEN "Retiring"
  ELSE IF \E w \in GWriters2 : wpc[w] \in {"nullP", "dnull"} /\ wv[w] = i
    THEN "Destroyed"
  ELSE IF i = _V /\ dtor # "done" THEN "Live"
  ELSE "Unused"

\* the moves of a slot
SlotMoves == {<<"Unused", "Live">>, <<"Live", "Retiring">>,
              <<"Retiring", "Destroyed">>, <<"Destroyed", "Unused">>}

C28_ReaderFrame ==
  [][/\ \A t \in GReaders :
          gpc'[t] # gpc[t]
            => /\ _V' = _V /\ _P' = _P /\ delCount' = delCount
               /\ \A u \in HIndex \ {t} : _H'[u] = _H[u]
     /\ gpc' = gpc => _H' = _H]_vars

\* C28 witness: two readers hold leases on different snapshots, each in its
\* own hazard slot, while the writer of a later exchange() scans the table.
C28_Witness ==
  \E t, u \in GReaders, w \in GWriters :
    /\ t # u
    /\ gpc[t] = "leased" /\ gpc[u] = "leased"
    /\ _H[t] # nullptr /\ _H[u] # nullptr /\ _H[t] # _H[u]
    /\ wpc[w] = "scan" /\ nret >= 1

\* the entries of a log are in strictly increasing order
Increasing(log) ==
  \A i \in 1..Len(log) : \A j \in 1..Len(log) : i < j => log[i] < log[j]

\* C29: monotonic reads.  The writer's k-th publish allocates snapshot k; the
\* snapshots that one reader looks at under successive leases (HSG) or under
\* successive guards (SCP) never go back to an older one.
C29_MonotonicReads ==
  /\ \A t \in GReaders : Increasing(gotLog[t])
  /\ \A t \in PReaders : Increasing(pgotLog[t])

\* C29 witness: a reader_guardian thread whose lease() retried has looked at
\* two snapshots, and after that a reader_protector thread has done so too.
C29_Witness ==
  \E t \in GReaders, u \in PReaders :
    /\ Len(gotLog[t]) >= 2 /\ retried[t]
    /\ Len(pgotLog[u]) >= 2

\* the slot index thread t has drawn from the cursor, -1 if it has drawn none
Drawn(t) == IF ppc[t] \in {"chkLast", "resetLast"} THEN pid[t] ELSE _mySlot[t]

\* the threads that have drawn a slot index
Drawers == {t \in PReaders : Drawn(t) >= 0}

\* C30: on one DataProtector<Nr> instance, as long as at most Nr threads have
\* called use(), in whatever interleaving, the indices they have drawn are
\* pairwise distinct and are exactly 0 .. k-1 for k threads, all inside the
\* table, and the cursor has not been reset: no two threads share a counter.
C30_FirstSlotsDistinct ==
  Cardinality(Drawers) <= Nr =>
    /\ \A t \in Drawers : \A u \in Drawers : t # u => Drawn(t) # Drawn(u)
    /\ {Drawn(t) : t \in Drawers} = 0..(Cardinality(Drawers) - 1)
    /\ \A t \in Drawers : Drawn(t) \in Slots
    /\ _last = Cardinality(Drawers)

\* C30 witness: Nr threads whose first use() calls overlapped hold guards on
\* Nr different slots at the same time.
C30_Witness ==
  /\ Cardinality(Drawers) = Nr
  /\ \A t \in Drawers : ppc[t] \in {"loadP", "read", "drop"}
  /\ \A i \in Slots : _list[i] = 1

====
